---- MODULE Spec2Model ----
(***************************************************************************)
(* Model of scripts/generate_maps.py: main runs the point pipeline         *)
(* (generate_sf_cluster_map) and then the join pipeline                    *)
(* (generate_choropleth), each inside its own try/except.                  *)
(*                                                                         *)
(* Representation:                                                         *)
(*   - Python None is the token None (never a column or property name).    *)
(*   - a data-frame cell is a tuple: <<>> is a missing value (NaN),        *)
(*     <<v>> is the value v.                                               *)
(*   - a number produced by median() is a fraction <<n, d>> (n/d);         *)
(*     NaN is <<0, 0>>.                                                    *)
(*   - a data frame is [columns |-> sequence of names, rows |-> sequence   *)
(*     of functions from the column names to cells].                       *)
(***************************************************************************)
EXTENDS Integers, Sequences, FiniteSets, TLC

\* ---------------------------------------------------------------- bounds
MaxCols == 3
MaxRows == 2
MaxCap == 2
MaxFeatures == 2

\* default of generate_sf_cluster_map's max_points
DefaultMaxPoints == 200000

\* ---------------------------------------------------------------- values
None == "<None>"
NaN == <<0, 0>>
NoExc == [type |-> "none", msg |-> ""]
Unset == <<>>

Range(s) == {s[i] : i \in 1..Len(s)}

\* Python truthiness of an optional string: None and '' are falsy.
Truthy(s) == s # None /\ s # ""

\* next((c for c in seq if P(c)), None): first element satisfying P.
RECURSIVE FirstIn(_, _)
FirstIn(seq, S) ==
    IF seq = <<>> THEN None
    ELSE IF Head(seq) \in S THEN Head(seq)
    ELSE FirstIn(Tail(seq), S)

\* ------------------------------------------------- find_lat_lon_columns
LatCandidates == <<"lat", "latitude", "y", "y_coord", "ycoord", "Latitude", "LAT">>
LonCandidates == <<"lon", "lng", "longitude", "x", "x_coord", "xcoord", "Longitude", "LON">>
CategoryCandidates == <<"category", "Category", "crime_type", "offense">>

find_lat_lon_columns(columns) ==
    <<FirstIn(LatCandidates, Range(columns)), FirstIn(LonCandidates, Range(columns))>>

FindCategoryColumn(columns) == FirstIn(CategoryCandidates, Range(columns))

\* ------------------------------------------------------ data frame steps
IsNull(cell) == Len(cell) = 0

\* df.dropna(subset=subset): keep the rows with no missing value in subset.
DropNa_HowAll(rows, subset) ==
    SelectSeq(rows, LAMBDA r : \E c \in subset : ~IsNull(r[c]))

DropNa(rows, subset) ==
    SelectSeq(rows, LAMBDA r : \A c \in subset : ~IsNull(r[c]))

\* df.sample(n=n, random_state=1): n rows drawn without replacement.  The
\* generator is outside this repository; every draw is a possible outcome.
SampleIndexes(len, n) ==
    {p \in [1..n -> 1..len] : \A i, j \in 1..n : i # j => p[i] # p[j]}

Sample_OffByOne(rows, n) ==
    {[i \in 1..(n + 1) |-> rows[p[i]]] : p \in SampleIndexes(Len(rows), n + 1)}

Sample(rows, n) ==
    {[i \in 1..n |-> rows[p[i]]] : p \in SampleIndexes(Len(rows), n)}

RECURSIVE Insert(_, _)
Insert(v, sorted) ==
    IF sorted = <<>> THEN <<v>>
    ELSE IF v <= Head(sorted) THEN <<v>> \o sorted
    ELSE <<Head(sorted)>> \o Insert(v, Tail(sorted))

RECURSIVE SortAsc(_)
SortAsc(vals) == IF vals = <<>> THEN <<>> ELSE Insert(Head(vals), SortAsc(Tail(vals)))

\* Series.median(): missing values are skipped; NaN for an empty series;
\* the middle value, or the mean of the two middle values.
Median(rows, col) ==
    LET present == SelectSeq(rows, LAMBDA r : ~IsNull(r[col]))
        vals == SortAsc([i \in 1..Len(present) |-> present[i][col][1]])
        n == Len(vals)
    IN  IF n = 0 THEN NaN
        ELSE IF n % 2 = 1 THEN <<vals[(n + 1) \div 2], 1>>
        ELSE <<vals[n \div 2] + vals[n \div 2 + 1], 2>>

\* str(row.get(category_col, ''))
Str(cell) == IF IsNull(cell) THEN "nan" ELSE cell[1]

Markers(rows, lat, lon, cat) ==
    [i \in 1..Len(rows) |->
        [location |-> <<rows[i][lat], rows[i][lon]>>,
         popup |-> IF cat # None THEN Str(rows[i][cat]) ELSE None]]

SfSchemaError ==
    [type |-> "ValueError",
     msg |-> "Could not find latitude/longitude columns in the SF CSV. Expected columns like 'lat','latitude','lng','lon','y','x', etc."]

\* ---------------------------------------------------- generate_choropleth
\* str.lower() on the column names this model draws schemas from.
Lower(c) ==
    CASE c = "Country" -> "country"
      [] c = "Count" -> "count"
      [] c = "ISO3" -> "iso3"
      [] c = "Value" -> "value"
      [] OTHER -> c

ValueCandidates == <<"value", "count", "immigrants", "migration", "num">>
CountryCandidates == <<"country", "country_name", "origin", "iso_a3", "iso3", "iso">>

\* next((c for c in mdf.columns if c.lower() in names), None)
RECURSIVE FirstColumnLowerIn(_, _)
FirstColumnLowerIn(columns, names) ==
    IF columns = <<>> THEN None
    ELSE IF Lower(Head(columns)) \in Range(names) THEN Head(columns)
    ELSE FirstColumnLowerIn(Tail(columns), names)

\* value = override or heuristic
OrElse(override, inferred) == IF Truthy(override) THEN override ELSE inferred

IdProperties == <<"iso_a3", "ISO_A3", "iso3", "id", "ADM0_A3", "ISO3">>

\* gj['features'][0].get('properties', {})
SampleProps(doc) ==
    IF doc.features[1].has_properties THEN doc.features[1].properties ELSE {}

InferIdField(doc) == FirstIn(IdProperties, SampleProps(doc))

KeyOn(field) ==
    IF Truthy(field) THEN "feature.properties." \o field
    ELSE "feature.properties.name"

\* mdf[[country, value]] with the columns renamed to country_key, value
Project(rows, country, value) ==
    [i \in 1..Len(rows) |-> [country_key |-> rows[i][country], value |-> rows[i][value]]]

ChSchemaError ==
    [type |-> "ValueError",
     msg |-> "Could not identify country or value columns in migration CSV. Please provide --migration-country-field and --migration-value-field flags."]
KeyErrorFeatures == [type |-> "KeyError", msg |-> "'features'"]
IndexErrorFeatures == [type |-> "IndexError", msg |-> "list index out of range"]
KeyErrorColumns == [type |-> "KeyError", msg |-> "not in index"]
\* an exception raised inside folium (map, layer, markers or save)
FoliumError == [type |-> "Exception", msg |-> "folium"]

\* defaults of --sf-out and --choropleth-out; main creates --out-dir only,
\* so the directory of an output path need not exist
SfOutDefault == "outputs/sf_crime_map.html"
ChoroplethOutDefault == "outputs/world_choropleth.html"

\* open(out_path, 'wb') inside m.save when the directory is missing
FileNotFound(path) ==
    [type |-> "FileNotFoundError",
     msg |-> "[Errno 2] No such file or directory: '" \o path \o "'"]

\* what m.save(out_path) can raise; the file system and folium are outside
\* this repository
SaveErrors(path) == {FoliumError, FileNotFound(path)}

\* ------------------------------------------------------------------ state
VARIABLES
    sf_csv,            \* the point CSV as read by pd.read_csv
    max_points,        \* generate_sf_cluster_map's cap
    migration_csv,     \* the migration CSV as read by pd.read_csv
    world_geojson,     \* the parsed geometry document
    args,              \* geojson_id_field, migration_country_field, migration_value_field
    pc,                \* position of main
    lat_col, lon_col, category_col,
    df_dropna,         \* df right after line 57
    df,                \* df of generate_sf_cluster_map (its rows)
    center,            \* <<center_lat, center_lon>>
    markers,           \* the CircleMarkers added to the cluster
    sf_saved,          \* m.save(out_path) of the point pipeline ran
    migration_value_field, migration_country_field, geojson_id_field,
    gj,                \* <<>> until json.load, then <<document>>
    sample_props,      \* <<>> until line 110 runs, then <<property names>>
    key_on, choro_df,
    choropleth_calls,  \* arguments of each folium.Choropleth(...) call
    choropleth_saved,  \* m.save(out_path) of the join pipeline ran
    exc,               \* the exception in flight
    stderr             \* lines printed to sys.stderr

inputs == <<sf_csv, max_points, migration_csv, world_geojson, args>>
sf_locals == <<lat_col, lon_col, category_col, df_dropna, df, center, markers, sf_saved>>
ch_locals == <<migration_value_field, migration_country_field, geojson_id_field,
               gj, sample_props, key_on, choro_df, choropleth_calls, choropleth_saved>>
vars == <<inputs, pc, sf_locals, ch_locals, exc, stderr>>

\* ------------------------------------------ generate_sf_cluster_map steps
\* lines 46-54: read the CSV, resolve the coordinate columns or raise
SfResolve ==
    /\ pc = "sf_resolve"
    /\ LET found == find_lat_lon_columns(sf_csv.columns)
       IN  /\ lat_col' = found[1]
           /\ lon_col' = found[2]
           /\ df' = sf_csv.rows
           /\ IF ~Truthy(found[1]) \/ ~Truthy(found[2])
              THEN exc' = SfSchemaError /\ pc' = "sf_except"
              ELSE exc' = exc /\ pc' = "sf_dropna"
    /\ UNCHANGED <<inputs, category_col, df_dropna, center, markers, sf_saved, ch_locals, stderr>>

\* line 57
SfDropna ==
    /\ pc = "sf_dropna"
    /\ df' = DropNa(df, {lat_col, lon_col})
    /\ df_dropna' = df'
    /\ pc' = "sf_sample"
    /\ UNCHANGED <<inputs, lat_col, lon_col, category_col, center, markers, sf_saved,
                   ch_locals, exc, stderr>>

\* lines 59-60
SfSample ==
    /\ pc = "sf_sample"
    /\ IF Len(df) > max_points
       THEN df' \in Sample(df, max_points)
       ELSE df' = df
    /\ pc' = "sf_center"
    /\ UNCHANGED <<inputs, lat_col, lon_col, category_col, df_dropna, center, markers,
                   sf_saved, ch_locals, exc, stderr>>

\* lines 63-64
SfCenter ==
    /\ pc = "sf_center"
    /\ center' = <<Median(df, lat_col), Median(df, lon_col)>>
    /\ pc' = "sf_map"
    /\ UNCHANGED <<inputs, lat_col, lon_col, category_col, df_dropna, df, markers,
                   sf_saved, ch_locals, exc, stderr>>

\* lines 66-83: folium.Map, MarkerCluster, the category column and one
\* CircleMarker per row.  Whether folium accepts the location or a marker is
\* decided outside this repository: it may raise at lines 66-67, before
\* anything is assigned, or at line 76 for any row, after category_col was
\* assigned and the markers of the earlier rows were added.
SfBuildMap ==
    /\ pc = "sf_map"
    /\ \/ /\ category_col' = FindCategoryColumn(sf_csv.columns)
          /\ markers' = Markers(df, lat_col, lon_col, category_col')
          /\ pc' = "sf_save"
          /\ exc' = exc
       \/ /\ exc' = FoliumError
          /\ pc' = "sf_except"
          /\ UNCHANGED <<category_col, markers>>
       \/ \E added \in 0..(Len(df) - 1) :
             /\ category_col' = FindCategoryColumn(sf_csv.columns)
             /\ markers' = SubSeq(Markers(df, lat_col, lon_col, category_col'), 1, added)
             /\ exc' = FoliumError
             /\ pc' = "sf_except"
    /\ UNCHANGED <<inputs, lat_col, lon_col, df_dropna, df, center, sf_saved,
                   ch_locals, stderr>>

\* lines 85-86: m.save writes the file and the function returns, or m.save
\* raises and nothing is written
SfSave ==
    /\ pc = "sf_save"
    /\ \/ sf_saved' = TRUE /\ pc' = "ch_resolve" /\ exc' = exc
       \/ /\ exc' \in SaveErrors(SfOutDefault)
          /\ pc' = "sf_except"
          /\ sf_saved' = sf_saved
    /\ UNCHANGED <<inputs, lat_col, lon_col, category_col, df_dropna, df, center, markers,
                   ch_locals, stderr>>

SfExcept_Propagates ==
    /\ pc = "sf_except"
    /\ pc' = "propagated"
    /\ UNCHANGED <<inputs, sf_locals, ch_locals, exc, stderr>>

\* main, lines 172-173
SfExcept ==
    /\ pc = "sf_except"
    /\ stderr' = Append(stderr, <<"Error generating SF map:", exc.msg>>)
    /\ exc' = NoExc
    /\ pc' = "ch_resolve"
    /\ UNCHANGED <<inputs, sf_locals, ch_locals>>

\* ---------------------------------------------- generate_choropleth steps
\* lines 91-102: read the CSV, resolve the country and value columns or raise
ChResolve ==
    /\ pc = "ch_resolve"
    /\ migration_value_field' =
          OrElse(args.migration_value_field,
                 FirstColumnLowerIn(migration_csv.columns, ValueCandidates))
    /\ migration_country_field' =
          OrElse(args.migration_country_field,
                 FirstColumnLowerIn(migration_csv.columns, CountryCandidates))
    /\ IF migration_country_field' = None \/ migration_value_field' = None
       THEN exc' = ChSchemaError /\ pc' = "ch_except"
       ELSE exc' = exc /\ pc' = "ch_geo"
    /\ UNCHANGED <<inputs, sf_locals, geojson_id_field, gj, sample_props, key_on, choro_df,
                   choropleth_calls, choropleth_saved, stderr>>

\* lines 104-105
ChLoadGeo ==
    /\ pc = "ch_geo"
    /\ gj' = <<world_geojson>>
    /\ pc' = "ch_idfield"
    /\ UNCHANGED <<inputs, sf_locals, migration_value_field, migration_country_field,
                   geojson_id_field, sample_props, key_on, choro_df, choropleth_calls,
                   choropleth_saved, exc, stderr>>

\* lines 108-111
ChIdField ==
    /\ pc = "ch_idfield"
    /\ IF geojson_id_field = None
       THEN IF ~gj[1].has_features
            THEN /\ exc' = KeyErrorFeatures /\ pc' = "ch_except"
                 /\ UNCHANGED <<geojson_id_field, sample_props>>
            ELSE IF gj[1].features = <<>>
            THEN /\ exc' = IndexErrorFeatures /\ pc' = "ch_except"
                 /\ UNCHANGED <<geojson_id_field, sample_props>>
            ELSE /\ sample_props' = <<SampleProps(gj[1])>>
                 /\ geojson_id_field' = InferIdField(gj[1])
                 /\ exc' = exc /\ pc' = "ch_keyon"
       ELSE /\ pc' = "ch_keyon"
            /\ UNCHANGED <<geojson_id_field, sample_props, exc>>
    /\ UNCHANGED <<inputs, sf_locals, migration_value_field, migration_country_field,
                   gj, key_on, choro_df, choropleth_calls, choropleth_saved, stderr>>

\* lines 114-120
ChKeyOn ==
    /\ pc = "ch_keyon"
    /\ key_on' = KeyOn(geojson_id_field)
    /\ pc' = "ch_project"
    /\ UNCHANGED <<inputs, sf_locals, migration_value_field, migration_country_field,
                   geojson_id_field, gj, sample_props, choro_df, choropleth_calls,
                   choropleth_saved, exc, stderr>>

\* lines 124-125: selecting a column the frame does not have raises KeyError
ChProject ==
    /\ pc = "ch_project"
    /\ IF {migration_country_field, migration_value_field} \subseteq Range(migration_csv.columns)
       THEN /\ choro_df' = Project(migration_csv.rows, migration_country_field,
                                   migration_value_field)
            /\ exc' = exc /\ pc' = "ch_render"
       ELSE /\ exc' = KeyErrorColumns /\ pc' = "ch_except"
            /\ UNCHANGED choro_df
    /\ UNCHANGED <<inputs, sf_locals, migration_value_field, migration_country_field,
                   geojson_id_field, gj, sample_props, key_on, choropleth_calls,
                   choropleth_saved, stderr>>

\* lines 128-142: the document, the projection and the locator are handed to
\* folium.Choropleth.  Whether folium accepts them is decided outside this
\* repository.
ChRender ==
    /\ pc = "ch_render"
    /\ choropleth_calls' =
          Append(choropleth_calls, [geo_data |-> gj[1], data |-> choro_df, key_on |-> key_on])
    /\ \/ exc' = exc /\ pc' = "ch_save"
       \/ exc' = FoliumError /\ pc' = "ch_except"
    /\ UNCHANGED <<inputs, sf_locals, migration_value_field, migration_country_field,
                   geojson_id_field, gj, sample_props, key_on, choro_df, choropleth_saved,
                   stderr>>

\* lines 143-144: m.save writes the file and the function returns, or m.save
\* raises and nothing is written
ChSave ==
    /\ pc = "ch_save"
    /\ \/ choropleth_saved' = TRUE /\ pc' = "done" /\ exc' = exc
       \/ /\ exc' \in SaveErrors(ChoroplethOutDefault)
          /\ pc' = "ch_except"
          /\ choropleth_saved' = choropleth_saved
    /\ UNCHANGED <<inputs, sf_locals, migration_value_field, migration_country_field,
                   geojson_id_field, gj, sample_props, key_on, choro_df, choropleth_calls,
                   stderr>>

\* main, lines 184-185
ChExcept ==
    /\ pc = "ch_except"
    /\ stderr' = Append(stderr, <<"Error generating choropleth:", exc.msg>>)
    /\ exc' = NoExc
    /\ pc' = "done"
    /\ UNCHANGED <<inputs, sf_locals, ch_locals>>

\* ----------------------------------------------------------------- inputs
\* headers: sequences of distinct names, at least one (pd.read_csv returns
\* no frame without columns) and at most n
Schemas(names, n) ==
    {s \in UNION {[1..k -> names] : k \in 1..n} :
        \A i, j \in 1..Len(s) : i # j => s[i] # s[j]}

SeqsUpTo(S, n) == UNION {[1..k -> S] : k \in 0..n}

SfColumnNames ==
    {"lat", "Latitude", "y", "lon", "x", "Longitude", "category", "offense", "id"}
MigColumnNames == {"Country", "iso3", "origin", "value", "Count", "year"}
\* property names of the features drawn below; the code reads no property
\* name outside IdProperties
GeoPropertyNames == {"iso_a3", "id", "ADM0_A3"}

\* a row of the point CSV: one latitude for every latitude column, one
\* longitude for every longitude column, one text for the others
SfRow(columns, lat, lon, text) ==
    [c \in Range(columns) |->
        IF c \in Range(LatCandidates) THEN lat
        ELSE IF c \in Range(LonCandidates) THEN lon
        ELSE text]

LatCells == {<<>>, <<1>>, <<3>>}
LonCells == {<<>>, <<5>>}
TextCells == {<<>>, <<"THEFT">>}

SfRows(columns) ==
    {SfRow(columns, a, o, t) : a \in LatCells, o \in LonCells, t \in TextCells}

MigRow(columns) ==
    [c \in Range(columns) |->
        IF Lower(c) \in Range(ValueCandidates) THEN <<10>> ELSE <<"CAN">>]

MigCsv(columns) == [columns |-> columns, rows |-> <<MigRow(columns)>>]

Feature(props) == [has_properties |-> TRUE, properties |-> props]
Features ==
    {Feature(props) : props \in SUBSET GeoPropertyNames}
        \cup {[has_properties |-> FALSE, properties |-> {}]}

NoFeaturesDoc == [has_features |-> FALSE, features |-> <<>>]
GeoDoc(features) == [has_features |-> TRUE, features |-> features]
GeoDocs == {NoFeaturesDoc} \cup {GeoDoc(fs) : fs \in SeqsUpTo(Features, MaxFeatures)}

NoOverrides ==
    [geojson_id_field |-> None, migration_country_field |-> None,
     migration_value_field |-> None]

CountryOverrides == {None, "", "value", "nosuch"}
ValueOverrides == {None, "", "Country", "value"}
IdOverrides == {None, "", "iso_a3", "nosuch"}

\* two point inputs: one that succeeds, one without coordinate columns
SfFew ==
    {[columns |-> <<"lat", "lon">>, rows |-> <<SfRow(<<"lat", "lon">>, <<1>>, <<5>>, <<>>)>>],
     [columns |-> <<"id">>, rows |-> <<SfRow(<<"id">>, <<1>>, <<5>>, <<"a">>)>>]}

\* two join inputs: one that succeeds, one without a value column
JoinFew ==
    {[csv |-> MigCsv(<<"Country", "value">>), geo |-> GeoDoc(<<Feature({"iso_a3", "name"})>>)],
     [csv |-> MigCsv(<<"Country", "year">>), geo |-> GeoDoc(<<Feature({"iso_a3", "name"})>>)]}

RowStudySchemas == {<<"lat", "lon", "category">>, <<"offense", "x", "y">>}

Start(csv, cap, mig, geo, a) ==
    /\ sf_csv = csv
    /\ max_points = cap
    /\ migration_csv = mig
    /\ world_geojson = geo
    /\ args = a
    /\ pc = "sf_resolve"
    /\ lat_col = None /\ lon_col = None /\ category_col = None
    /\ df_dropna = <<>> /\ df = <<>>
    /\ center = Unset
    /\ markers = <<>>
    /\ sf_saved = FALSE
    /\ migration_value_field = a.migration_value_field
    /\ migration_country_field = a.migration_country_field
    /\ geojson_id_field = a.geojson_id_field
    /\ gj = <<>>
    /\ sample_props = <<>>
    /\ key_on = None
    /\ choro_df = <<>>
    /\ choropleth_calls = <<>>
    /\ choropleth_saved = FALSE
    /\ exc = NoExc
    /\ stderr = <<>>

\* point CSVs over every schema, the default cap
InitSfSchemas ==
    \E columns \in Schemas(SfColumnNames, MaxCols), n \in 0..1, j \in JoinFew :
        Start([columns |-> columns,
               rows |-> [i \in 1..n |-> SfRow(columns, <<1>>, <<5>>, <<"THEFT">>)]],
              DefaultMaxPoints, j.csv, j.geo, NoOverrides)

\* point CSVs over every frame of at most MaxRows rows and every cap, with
\* a migration CSV that has no value column
InitSfRows ==
    \E columns \in RowStudySchemas, cap \in (0..MaxCap) \cup {DefaultMaxPoints} :
        \E rows \in SeqsUpTo(SfRows(columns), MaxRows) :
            Start([columns |-> columns, rows |-> rows], cap, MigCsv(<<"Country", "year">>),
                  GeoDoc(<<Feature({"iso_a3", "name"})>>), NoOverrides)

\* migration CSVs over every schema and every column override
InitMigSchemas ==
    \E sf \in SfFew, columns \in Schemas(MigColumnNames, MaxCols),
       c \in CountryOverrides, v \in ValueOverrides :
        Start(sf, DefaultMaxPoints, MigCsv(columns), GeoDoc(<<Feature({"iso_a3", "name"})>>),
              [geojson_id_field |-> None, migration_country_field |-> c,
               migration_value_field |-> v])

\* geometry documents of at most MaxFeatures features and every id override
InitGeoDocs ==
    \E sf \in SfFew, geo \in GeoDocs, f \in IdOverrides :
        Start(sf, DefaultMaxPoints, MigCsv(<<"Country", "value">>), geo,
              [geojson_id_field |-> f, migration_country_field |-> None,
               migration_value_field |-> None])

Init == InitSfSchemas \/ InitSfRows \/ InitMigSchemas \/ InitGeoDocs

Next ==
    \/ SfResolve \/ SfDropna \/ SfSample \/ SfCenter \/ SfBuildMap \/ SfSave \/ SfExcept
    \/ ChResolve \/ ChLoadGeo \/ ChIdField \/ ChKeyOn \/ ChProject \/ ChRender \/ ChSave
    \/ ChExcept

Spec == Init /\ [][Next]_vars

\* ================================================================= claims
\* the candidate of lowest priority index that the schema contains
HasCandidate(cands, schema) == \E i \in 1..Len(cands) : cands[i] \in schema
PriorityPick(cands, schema) ==
    cands[CHOOSE i \in 1..Len(cands) :
              cands[i] \in schema /\ \A j \in 1..(i - 1) : cands[j] \notin schema]

SfSchema == Range(sf_csv.columns)
MigSchema == Range(migration_csv.columns)
\* the migration schema as the heuristics compare it: in lower case
MigSchemaLower == {Lower(c) : c \in MigSchema}

SfAfterResolve == {"sf_dropna", "sf_sample", "sf_center", "sf_map", "sf_save"}
SfAfterDropna == {"sf_sample", "sf_center", "sf_map", "sf_save"}
SfAfterSample == {"sf_center", "sf_map", "sf_save"}
SfAfterCenter == {"sf_map", "sf_save"}
SfPcs == {"sf_resolve", "sf_except"} \cup SfAfterResolve
ChAfterResolve == {"ch_geo", "ch_idfield", "ch_keyon", "ch_project", "ch_render", "ch_save"}
ChAfterIdField == {"ch_keyon", "ch_project", "ch_render", "ch_save"}
ChAfterKeyOn == {"ch_project", "ch_render", "ch_save"}

\* C1: every role resolves to the candidate that is first in the role's
\* priority list among those the schema contains, whatever the column order
\* (latitude, longitude, category; country_key and value without override).
C1_FirstInPriorityOrder ==
    /\ (pc \in SfAfterResolve /\ HasCandidate(LatCandidates, SfSchema))
          => lat_col = PriorityPick(LatCandidates, SfSchema)
    /\ (pc \in SfAfterResolve /\ HasCandidate(LonCandidates, SfSchema))
          => lon_col = PriorityPick(LonCandidates, SfSchema)
    /\ (pc = "sf_save" /\ HasCandidate(CategoryCandidates, SfSchema))
          => category_col = PriorityPick(CategoryCandidates, SfSchema)
    /\ (pc \in ChAfterResolve /\ args.migration_country_field = None
            /\ HasCandidate(CountryCandidates, MigSchemaLower))
          => Lower(migration_country_field) = PriorityPick(CountryCandidates, MigSchemaLower)
    /\ (pc \in ChAfterResolve /\ args.migration_value_field = None
            /\ HasCandidate(ValueCandidates, MigSchemaLower))
          => Lower(migration_value_field) = PriorityPick(ValueCandidates, MigSchemaLower)

\* the roles an error message names, and whether it lists the schema
NamedRoles(msg) ==
    IF msg = SfSchemaError.msg THEN {"latitude", "longitude"}
    ELSE IF msg = ChSchemaError.msg THEN {"country_key", "value"}
    ELSE {}
ListsSchema(msg) == FALSE

SfUnresolved ==
    {r \in {"latitude", "longitude"} :
        ~HasCandidate(IF r = "latitude" THEN LatCandidates ELSE LonCandidates, SfSchema)}
ChUnresolved ==
    {r \in {"country_key", "value"} :
        /\ (IF r = "country_key" THEN args.migration_country_field
            ELSE args.migration_value_field) = None
        /\ ~HasCandidate(IF r = "country_key" THEN CountryCandidates ELSE ValueCandidates,
                         MigSchemaLower)}

SfNoLaterStep == df_dropna = <<>> /\ center = Unset /\ markers = <<>> /\ ~sf_saved
ChNoLaterStep == gj = <<>> /\ choropleth_calls = <<>> /\ ~choropleth_saved

\* C2: a schema without a candidate for a required role makes the pipeline
\* fail with SchemaResolutionError, naming exactly the unresolved roles and
\* listing the schema, and no later step of the pipeline runs.
C2_SchemaResolutionError ==
    /\ (pc \in SfPcs \ {"sf_resolve"} /\ SfUnresolved # {})
          => /\ pc = "sf_except"
             /\ exc.type = "SchemaResolutionError"
             /\ NamedRoles(exc.msg) = SfUnresolved
             /\ ListsSchema(exc.msg)
             /\ SfNoLaterStep
    /\ (pc \in ChAfterResolve \cup {"ch_except"} /\ ChUnresolved # {})
          => /\ pc = "ch_except"
             /\ exc.type = "SchemaResolutionError"
             /\ NamedRoles(exc.msg) = ChUnresolved
             /\ ListsSchema(exc.msg)
             /\ ChNoLaterStep

\* C3: when no record remains after dropping the records without
\* coordinates, the point pipeline fails with EmptyDatasetError: no centre
\* is computed, no map is built, no file is saved.
C3_EmptyDatasetError ==
    /\ (pc \in SfAfterDropna /\ df_dropna = <<>>)
          => center = Unset /\ markers = <<>> /\ ~sf_saved
    /\ (pc = "sf_except" /\ Truthy(lat_col) /\ Truthy(lon_col) /\ df_dropna = <<>>)
          => exc.type = "EmptyDatasetError"

\* C4: without an override, the identifier is the first name of the first
\* feature's properties in a priority list where every ISO-3 spelling comes
\* before id; with none present the locator is feature.properties.name.
Iso3Spellings == {"iso_a3", "ISO_A3", "iso3", "ISO3", "ADM0_A3"}
C4_Iso3BeforeId ==
    (pc \in ChAfterIdField /\ args.geojson_id_field = None)
        => /\ sample_props = <<SampleProps(world_geojson)>>
           /\ (sample_props[1] \cap Iso3Spellings # {}) => geojson_id_field \in Iso3Spellings
           /\ (sample_props[1] \cap Iso3Spellings = {} /\ "id" \in sample_props[1])
                 => geojson_id_field = "id"
           /\ (sample_props[1] \cap (Iso3Spellings \cup {"id"}) = {} /\ pc \in ChAfterKeyOn)
                 => key_on = "feature.properties.name"

\* C5: a supplied geojson_id_field, the empty string included, suppresses
\* inference and the locator is 'feature.properties.' followed by it; the
\* name fallback locator occurs only without override and without match.
C5_OverrideVerbatim ==
    /\ (pc \in ChAfterKeyOn /\ args.geojson_id_field # None)
          => /\ sample_props = <<>>
             /\ key_on = "feature.properties." \o args.geojson_id_field
    /\ (pc \in ChAfterKeyOn /\ key_on = "feature.properties.name"
            /\ args.geojson_id_field # "name")
          => /\ args.geojson_id_field = None
             /\ sample_props # <<>>
             /\ sample_props[1] \cap Range(IdProperties) = {}

\* C6: above the cap the retained set has exactly max_points records, all
\* taken from the filtered set; at or below the cap it is the filtered set
\* itself; the centre is the median of the retained set.
IsSelectionOf(sub, full) ==
    \E p \in [1..Len(sub) -> 1..Len(full)] :
        /\ \A i, j \in 1..Len(sub) : i # j => p[i] # p[j]
        /\ \A i \in 1..Len(sub) : sub[i] = full[p[i]]

C6_SampleAndCenter ==
    /\ (pc \in SfAfterSample /\ Len(df_dropna) > max_points)
          => Len(df) = max_points /\ IsSelectionOf(df, df_dropna)
    /\ (pc \in SfAfterSample /\ Len(df_dropna) <= max_points) => df = df_dropna
    /\ pc \in SfAfterCenter
          => center = <<Median(df, lat_col), Median(df, lon_col)>>

C6_Witness ==
    /\ pc = "sf_save"
    /\ Len(df_dropna) = 2 /\ max_points = 1 /\ Len(df) = 1
    /\ center[1] # Median(df_dropna, lat_col)

\* C7: the coordinate filter keeps, in order, exactly the records whose
\* latitude and longitude are both present; missing values elsewhere do not
\* matter and nothing is raised.
KeptIndexes ==
    {i \in 1..Len(sf_csv.rows) :
        ~IsNull(sf_csv.rows[i][lat_col]) /\ ~IsNull(sf_csv.rows[i][lon_col])}

C7_CoordinateFilter ==
    pc \in SfAfterDropna
        => /\ Len(df_dropna) = Cardinality(KeptIndexes)
           /\ \A k \in 1..Len(df_dropna) :
                 df_dropna[k] =
                    sf_csv.rows[CHOOSE i \in KeptIndexes :
                                    Cardinality({j \in KeptIndexes : j <= i}) = k]
           /\ exc = NoExc

C7_Witness ==
    /\ pc = "sf_sample"
    /\ Len(sf_csv.rows) = 2 /\ Len(df_dropna) = 1
    /\ FindCategoryColumn(sf_csv.columns) # None
    /\ IsNull(df_dropna[1][FindCategoryColumn(sf_csv.columns)])
    /\ \E i \in 1..2 : IsNull(sf_csv.rows[i][lat_col]) /\ ~IsNull(sf_csv.rows[i][lon_col])

\* C8: whatever the point pipeline's outcome, the join pipeline is started
\* after it with the caller's arguments; every failure is caught at its
\* pipeline's boundary and logged; main always reaches its end (every step
\* moves main forward, and a step is possible until the end is reached)
\* with no failure in flight.
PcOrder ==
    <<"sf_resolve", "sf_dropna", "sf_sample", "sf_center", "sf_map", "sf_save", "sf_except",
      "ch_resolve", "ch_geo", "ch_idfield", "ch_keyon", "ch_project", "ch_render", "ch_save",
      "ch_except", "done">>
Rank(p) ==
    IF \E i \in 1..Len(PcOrder) : PcOrder[i] = p
    THEN CHOOSE i \in 1..Len(PcOrder) : PcOrder[i] = p
    ELSE 0

C8_Isolation ==
    /\ [](/\ exc # NoExc <=> pc \in {"sf_except", "ch_except"}
          /\ pc = "ch_resolve"
                => /\ migration_country_field = args.migration_country_field
                   /\ migration_value_field = args.migration_value_field
                   /\ geojson_id_field = args.geojson_id_field
                   /\ Len(stderr) <= 1
          /\ pc # "done" => ENABLED Next)
    /\ [][/\ (pc \in SfPcs /\ pc' \notin SfPcs) => pc' = "ch_resolve"
          /\ pc = "sf_except"
                => /\ stderr' = Append(stderr, <<"Error generating SF map:", exc.msg>>)
                   /\ pc' = "ch_resolve"
          /\ pc = "ch_except"
                => /\ stderr' = Append(stderr, <<"Error generating choropleth:", exc.msg>>)
                   /\ pc' = "done"
          /\ (pc # "sf_except" /\ pc # "ch_except") => stderr' = stderr
          /\ inputs' = inputs
          /\ Rank(pc') > Rank(pc)]_vars

C8_Witness ==
    /\ pc = "done"
    /\ Len(stderr) = 1
    /\ stderr[1][1] = "Error generating SF map:"
    /\ choropleth_saved

\* C9: no column is claimed by two roles: latitude and longitude differ, and
\* country_key and value differ, under every combination of overrides.
C9_NoDoubleClaim ==
    /\ pc \in SfAfterResolve => lat_col # lon_col
    /\ pc \in ChAfterResolve => migration_country_field # migration_value_field

\* C10: a geometry document without a feature list, or with an empty one,
\* makes the join pipeline fail with MalformedGeometryError before anything
\* reaches the renderer, with or without a geojson_id_field override.
Malformed(doc) == ~doc.has_features \/ doc.features = <<>>
C10_MalformedGeometryError ==
    (gj # <<>> /\ Malformed(world_geojson))
        => /\ choropleth_calls = <<>>
           /\ pc \notin {"ch_render", "ch_save"}
           /\ pc = "ch_except" => exc.type = "MalformedGeometryError"

====
